---------------------------- MODULE Spec2Model ----------------------------
(***************************************************************************)
(* Model of the whitelist service of web-stc                               *)
(* (src/src/services/firebaseService.ts): addWhitelistUser,                *)
(* bulkImportWhitelistUsers, deleteAllWhitelistUsers and                   *)
(* removeDuplicateUsers running against the whitelist_users collection,    *)
(* bootstrapSuperAdmin against admin_users, and getRegistrationConfig and  *)
(* updateRegistrationConfig against the app_config/registration_config     *)
(* document, and the auth-state listener of AuthProvider                   *)
(* (src/src/contexts/AuthContext.tsx).                                     *)
(*                                                                         *)
(* A call is a process p with a local record call[p].  Every action is one *)
(* synchronous stretch of the async function: it resolves the store call   *)
(* (or the delay) the function is suspended on, applies that call's effect *)
(* to the store, and runs the code up to the next await or to the return.  *)
(*                                                                         *)
(* Strings are sequences of one-character strings, so that trim(),         *)
(* includes(), toLowerCase() and the sanitizeDocId regular expression are  *)
(* computed character by character.                                        *)
(***************************************************************************)
EXTENDS Integers, Sequences, FiniteSets, TLC

VARIABLES
    store,        \* whitelist_users: document id -> document data
    call,         \* call[p]: the local state of process p's current call
    now,          \* the clock Date.now() reads; it ticks when a call starts
    admin_users,  \* admin_users: document id -> document data
    app_config,   \* app_config: document id -> document data
    authState     \* the state of AuthProvider: user, isAdmin, isSuperAdmin

vars == <<store, call, now, admin_users, app_config, authState>>

----------------------------------------------------------------------------
(* Bounds of the model *)

\* Longest input list handed to bulkImportWhitelistUsers.
MaxUsers == 3

\* Number of service calls made in one run.
MaxCalls == 2

\* The chunk sizes of the source (50 records per write chunk, 30 userIds per
\* existence query, 500 documents per delete chunk) are checked scaled down,
\* so that inputs of MaxUsers records span several chunks.
BATCH_SIZE == 2

QUERY_SIZE == 2

DELETE_BATCH_SIZE == 2

Procs == {1, 2}

----------------------------------------------------------------------------
(* Strings *)

\* A field the caller left out (JavaScript undefined).
Absent == <<"undefined">>

Whitespace == {" "}

RECURSIVE trimStart(_)
trimStart(s) ==
    IF s # <<>> /\ Head(s) \in Whitespace THEN trimStart(Tail(s)) ELSE s

RECURSIVE trimEnd(_)
trimEnd(s) ==
    IF s # <<>> /\ s[Len(s)] \in Whitespace
    THEN trimEnd(SubSeq(s, 1, Len(s) - 1))
    ELSE s

\* String.prototype.trim
trim(s) == trimEnd(trimStart(s))

\* String.prototype.includes, for a one-character needle
includes(s, c) == \E k \in 1..Len(s) : s[k] = c

LowerChar(c) ==
    CASE c = "A" -> "a"
      [] c = "B" -> "b"
      [] c = "N" -> "n"
      [] OTHER -> c

\* String.prototype.toLowerCase
toLowerCase(s) == [k \in 1..Len(s) |-> LowerChar(s[k])]

\* A JavaScript string used as a condition: undefined and "" are falsy.
Truthy(s) == s # Absent /\ s # <<>>

\* user.field?.trim()
OptTrim(s) == IF s = Absent THEN Absent ELSE trim(s)

\* The characters the regular expression [^a-zA-Z0-9_-] leaves alone.
DocIdChars ==
    {"a","b","c","d","e","f","g","h","i","j","k","l","m",
     "n","o","p","q","r","s","t","u","v","w","x","y","z",
     "A","B","C","D","E","F","G","H","I","J","K","L","M",
     "N","O","P","Q","R","S","T","U","V","W","X","Y","Z",
     "0","1","2","3","4","5","6","7","8","9","_","-"}

sanitizeDocId(userId) ==
    [k \in 1..Len(userId) |-> IF userId[k] \in DocIdChars THEN userId[k] ELSE "_"]

----------------------------------------------------------------------------
(* Inputs *)

User(name, email, userId, deviceId, isActive) ==
    [name |-> name, email |-> email, userId |-> userId,
     deviceId |-> deviceId, isActive |-> isActive]

\* userIds that pass the field rules: a plain one, and two that differ only
\* in a character the document id replaces.
PlainUserIds == { <<"a">>, <<".">>, <<"_">> }

\* The records a caller hands in: a well-formed record for every plain
\* userId; a record for userId "a" written with a leading blank, which
\* differs from the plain one in every other field too; and one record for
\* each field rule it can break.
InputUsers ==
    { User(<<"n">>, Absent, u, <<"d">>, "undefined") : u \in PlainUserIds }
    \cup { User(<<"m", " ">>, <<"B", "@">>, <<" ", "a">>, <<"e">>, "false") }
    \cup { User(<<" ">>, Absent, <<"a">>, <<"d">>, "undefined"),
           User(<<"n">>, <<"x">>, <<"a">>, <<"d">>, "undefined"),
           User(<<"n">>, Absent, <<" ">>, <<"d">>, "undefined"),
           User(<<"n">>, Absent, <<"a">>, <<>>, "undefined") }

RECURSIVE SeqsUpTo(_, _)
SeqsUpTo(S, n) ==
    IF n = 0 THEN { <<>> }
    ELSE LET shorter == SeqsUpTo(S, n - 1)
         IN  shorter \cup { Append(s, x) : s \in shorter, x \in S }

ImportInputs == SeqsUpTo(InputUsers, MaxUsers)


----------------------------------------------------------------------------
(* bulkImportWhitelistUsers, step 1: the validation pass *)

\* A plausible slip: the deviceId rule is left out.
ValidationMessage_NoDeviceRule(user) ==
    IF ~Truthy(OptTrim(user.name)) THEN "Name is required"
    ELSE IF Truthy(user.email) /\ ~includes(user.email, "@")
         THEN "Valid email is required"
    ELSE IF ~Truthy(OptTrim(user.userId)) THEN "User ID is required"
    ELSE "ok"

\* The message of the validation error the row throws, "ok" when it throws
\* none.
ValidationMessage(user) ==
    IF ~Truthy(OptTrim(user.name)) THEN "Name is required"
    ELSE IF Truthy(user.email) /\ ~includes(user.email, "@")
         THEN "Valid email is required"
    ELSE IF ~Truthy(OptTrim(user.userId)) THEN "User ID is required"
    ELSE IF ~Truthy(OptTrim(user.deviceId)) THEN "Device ID is required"
    ELSE "ok"

\* `Row ${rowNum}: ${message}`; userId is the id the message quotes, if any.
RowError(rowNum, message, userId) ==
    [tag |-> "Row", n |-> rowNum, message |-> message, userId |-> userId]

\* `no-email-${user.userId}@placeholder.local`
PlaceholderEmail(userId) == <<"no-email-">> \o userId \o <<"@placeholder.local">>

\* Boolean(v) of the JavaScript values an isActive field holds.
Boolean(v) == v = "true"

NormalizedEmail(user) ==
    LET e == IF user.email = Absent THEN Absent
             ELSE toLowerCase(trim(user.email))
    IN  IF Truthy(e) THEN e ELSE PlaceholderEmail(user.userId)

\* The entry pushed onto validUsers.
Normalized(user, rowNum) ==
    [userId    |-> trim(user.userId),
     name      |-> trim(user.name),
     email     |-> NormalizedEmail(user),
     deviceId  |-> trim(user.deviceId),
     isActive  |-> IF user.isActive # "undefined" THEN Boolean(user.isActive) ELSE TRUE,
     rowNumber |-> rowNum]

\* A plausible slip: the row number is the loop index.
rowNum_LoopIndex(i) == i

\* const rowNum = i + 1, for the 0-based loop index i
rowNum(i) == i + 1

\* A plausible slip: an in-file duplicate is thrown like a validation error.
IsFileDuplicate_Never(seenUserIds, user) == FALSE

\* seenUserIds.has(user.userId)
IsFileDuplicate(seenUserIds, user) == user.userId \in seenUserIds

\* One iteration of the validation loop on the accumulated
\* {validUsers, seenUserIds, failed, skipped, errors}.
ValidateRow(acc, user, i) ==
    LET msg == ValidationMessage(user)
    IN  IF msg # "ok"
        THEN [acc EXCEPT !.failed = @ + 1,
                         !.errors = Append(@, RowError(rowNum(i), msg, <<>>))]
        ELSE IF IsFileDuplicate(acc.seenUserIds, user)
        THEN [acc EXCEPT !.skipped = @ + 1,
                         !.errors = Append(@, RowError(rowNum(i),
                                        "Duplicate userId in import file", user.userId))]
        ELSE [acc EXCEPT !.seenUserIds = @ \cup {user.userId},
                         !.validUsers = Append(@, Normalized(user, rowNum(i)))]

RECURSIVE ValidateFrom(_, _, _)
ValidateFrom(users, i, acc) ==
    IF i >= Len(users) THEN acc
    ELSE ValidateFrom(users, i + 1, ValidateRow(acc, users[i + 1], i))

\* for (let i = 0; i < users.length; i++) { ... }
ValidationPass(users) ==
    ValidateFrom(users, 0,
        [validUsers |-> <<>>, seenUserIds |-> {}, failed |-> 0,
         skipped |-> 0, errors |-> <<>>])

----------------------------------------------------------------------------
(* The store *)

\* A plausible slip: the write is taken for a create that leaves a document
\* that exists as it is.
SetDoc_CreateOnly(st, docId, data) ==
    [d \in (DOMAIN st) \cup {docId} |-> IF d \in DOMAIN st THEN st[d] ELSE data]

\* setDoc / batch.set: the document is created or replaced.
SetDoc(st, docId, data) ==
    [d \in (DOMAIN st) \cup {docId} |-> IF d = docId THEN data ELSE st[d]]

\* The document bulkImportWhitelistUsers writes for a validUsers entry.
ImportDoc(user, addedBy, t) ==
    [name |-> user.name, email |-> user.email, userId |-> user.userId,
     deviceId |-> user.deviceId, isActive |-> user.isActive,
     createdAt |-> t, addedAt |-> t, addedBy |-> addedBy, lastLogin |-> 0]

\* A plausible slip: the stored userId is trimmed, the document id is not.
AddDoc_Trimmed(user, addedBy, t) ==
    [name |-> user.name, email |-> user.email, userId |-> trim(user.userId),
     deviceId |-> user.deviceId, isActive |-> TRUE,
     createdAt |-> t, addedAt |-> t, addedBy |-> addedBy, lastLogin |-> 0]

\* The document addWhitelistUser writes: { ...user, createdAt, ... }.
AddDoc(user, addedBy, t) ==
    [name |-> user.name, email |-> user.email, userId |-> user.userId,
     deviceId |-> user.deviceId, isActive |-> TRUE,
     createdAt |-> t, addedAt |-> t, addedBy |-> addedBy, lastLogin |-> 0]

\* A committed batch: the batch.set calls take effect in the order made.
RECURSIVE CommitSets(_, _, _, _)
CommitSets(st, batchUsers, addedBy, t) ==
    IF batchUsers = <<>> THEN st
    ELSE CommitSets(SetDoc(st, sanitizeDocId(Head(batchUsers).userId),
                           ImportDoc(Head(batchUsers), addedBy, t)),
                    Tail(batchUsers), addedBy, t)

\* query(usersRef, where('userId', 'in', userIds)): the userId fields of the
\* documents found.
QueryUserIdIn(st, userIds) ==
    { st[d].userId : d \in { x \in DOMAIN st : st[x].userId \in userIds } }

\* array.slice(i, i + n), for a 0-based i
Slice(s, i, n) ==
    SubSeq(s, i + 1, IF i + n < Len(s) THEN i + n ELSE Len(s))

SeqToSet(s) == { s[k] : k \in 1..Len(s) }

----------------------------------------------------------------------------
(* Document order of a full-collection read *)

\* getDocs(collection) returns the documents ordered by document id.
CharOrder ==
    <<" ", "-", ".", "0", "1", "2", "3", "4", "5", "6", "7", "8", "9", "@",
      "A", "B", "C", "D", "E", "F", "G", "H", "I", "J", "K", "L", "M",
      "N", "O", "P", "Q", "R", "S", "T", "U", "V", "W", "X", "Y", "Z", "_",
      "a", "b", "c", "d", "e", "f", "g", "h", "i", "j", "k", "l", "m",
      "n", "o", "p", "q", "r", "s", "t", "u", "v", "w", "x", "y", "z">>

CharCode(c) == CHOOSE k \in 1..Len(CharOrder) : CharOrder[k] = c

RECURSIVE IdLess(_, _)
IdLess(a, b) ==
    IF a = <<>> THEN b # <<>>
    ELSE IF b = <<>> THEN FALSE
    ELSE IF Head(a) = Head(b) THEN IdLess(Tail(a), Tail(b))
    ELSE CharCode(Head(a)) < CharCode(Head(b))

RECURSIVE SortedIds(_)
SortedIds(S) ==
    IF S = {} THEN <<>>
    ELSE LET m == CHOOSE x \in S : \A y \in S \ {x} : IdLess(x, y)
         IN  <<m>> \o SortedIds(S \ {m})

\* snapshot.docs of getDocs(usersRef)
SnapshotDocs(st) == SortedIds(DOMAIN st)

\* A committed batch of deletes.
DeleteDocs(st, docIds) == [d \in (DOMAIN st) \ docIds |-> st[d]]

\* A plausible slip: the chunks are numbered from 0.
BatchError_ZeroBased(i, size) ==
    [tag |-> "Batch", n |-> i \div size, message |-> "backend error",
     userId |-> <<>>]

\* `Batch ${Math.floor(i / BATCH_SIZE) + 1}: ${error.message}`
BatchError(i, size) ==
    [tag |-> "Batch", n |-> (i \div size) + 1, message |-> "backend error",
     userId |-> <<>>]

----------------------------------------------------------------------------
(* The local state of a call *)

EmptyStore == [d \in {} |-> 0]

\* useState(null), useState(false), useState(false)
NoUser == [user |-> "none", isAdmin |-> FALSE, isSuperAdmin |-> FALSE]

NoCall ==
    [op |-> "none", pc |-> "idle", users |-> <<>>, isSuperAdmin |-> FALSE,
     i |-> 0, j |-> 0, success |-> 0, failed |-> 0, skipped |-> 0,
     errors |-> <<>>, validUsers |-> <<>>, existingUserIds |-> {},
     usersToImport |-> <<>>, docId |-> <<>>, snapshot |-> <<>>,
     duplicates |-> <<>>, removed |-> 0, progress |-> <<>>,
     thrown |-> "", email |-> "", data |-> EmptyStore,
     \* what the call has done so far, kept for the properties
     inFlight |-> {},         \* store writes issued and not yet resolved
     waitedAfter |-> {},      \* loop indices i of the chunks a delay followed
     replaced |-> EmptyStore, \* the config document a write of the defaults replaced
     queryFailed |-> {},      \* loop indices i of the existence queries that failed
     adminCheck |-> FALSE, event |-> 0,
     storeCalls |-> 0,        \* store calls issued
     issued |-> {},           \* rows a write was issued for
     imported |-> {},         \* rows whose write succeeded
     faults |-> 0,            \* store calls that failed
     fellBack |-> {},         \* loop indices i of the chunks whose commit failed
     rerun |-> FALSE,         \* the input is that of the previous import
     prevClean |-> FALSE,     \* ... and no store call of that import failed
     before |-> EmptyStore]   \* the store when the call started

\* A caller starts a call when it has none running and has taken note of the
\* result of its last one.
CanStart(p) == call[p].pc = "idle" /\ now < MaxCalls

\* handleImport runs again on the file it has just imported.
CanRerun(p) == call[p].pc = "done" /\ call[p].op = "import" /\ now < MaxCalls

Return(c) == [c EXCEPT !.pc = "done"]

Throw(c, message) == [c EXCEPT !.pc = "done", !.thrown = message]

\* onProgress(current, total)
Progress(c, current, total) == [c EXCEPT !.progress = Append(@, <<current, total>>)]

Rows(batchUsers) == { batchUsers[k].rowNumber : k \in 1..Len(batchUsers) }

\* for (let i = 0; ...; i += BATCH_SIZE)
NextIndex(i, size) == i + size

----------------------------------------------------------------------------
(* bulkImportWhitelistUsers, steps 2 to 4 *)

\* A plausible slip: the working set is not filtered.
FilterExisting_KeepAll(c) == [c EXCEPT !.usersToImport = c.validUsers]

RECURSIVE FilterFrom(_, _)
FilterFrom(c, k) ==
    IF k > Len(c.validUsers) THEN c
    ELSE LET user == c.validUsers[k]
         IN  IF user.userId \in c.existingUserIds
             THEN FilterFrom([c EXCEPT
                      !.skipped = @ + 1,
                      !.errors = Append(@, RowError(user.rowNumber,
                                     "already exists in database", user.userId))],
                      k + 1)
             ELSE FilterFrom([c EXCEPT !.usersToImport = Append(@, user)], k + 1)

\* A plausible slip: the stored records are dropped without being counted.
FilterExisting_Silent(c) ==
    [c EXCEPT !.usersToImport =
        SelectSeq(c.validUsers, LAMBDA u : u.userId \notin c.existingUserIds)]

\* Step 3: validUsers.filter(...)
FilterExisting(c) == FilterFrom(c, 1)

\* The head of one iteration of the write loop, up to await batch.commit().
IssueCommit(c) ==
    [c EXCEPT !.pc = "commit",
              !.storeCalls = @ + 1,
              !.inFlight = @ \cup {<<"commit", c.i, 0>>},
              !.issued = @ \cup Rows(Slice(c.usersToImport, c.i, BATCH_SIZE))]

\* A plausible slip: the fallback writes of a chunk are issued together
\* (Promise.all over batchUsers) instead of one after the other.
IssueSetDoc_All(c) ==
    LET n == Len(Slice(c.usersToImport, c.i, BATCH_SIZE))
    IN  [c EXCEPT !.pc = "setDoc", !.storeCalls = @ + n,
                  !.inFlight = @ \cup { <<"setDoc", c.i, k>> : k \in 0..(n - 1) }]

\* One iteration of the fallback loop, up to await setDoc(userRef, ...).
IssueSetDoc(c) ==
    [c EXCEPT !.pc = "setDoc", !.storeCalls = @ + 1,
              !.inFlight = @ \cup {<<"setDoc", c.i, c.j>>}]

\* Step 4 starts: the first iteration, or the return when there is none.
EnterWriteLoop(c) ==
    IF Len(c.usersToImport) > 0
    THEN IssueCommit([c EXCEPT !.i = 0])
    ELSE Return(c)

\* A plausible slip: the first query is issued before the list is tested.
EnterQueryLoop_Always(c) ==
    [c EXCEPT !.pc = "getDocs", !.i = 0, !.storeCalls = @ + 1]

\* Step 2 starts: the first query, or steps 3 and 4 when there is none.
EnterQueryLoop(c) ==
    IF Len(c.validUsers) > 0
    THEN [c EXCEPT !.pc = "getDocs", !.i = 0, !.storeCalls = @ + 1]
    ELSE EnterWriteLoop(FilterExisting(c))

\* A plausible slip: the chunk boundary is off by one, and a last chunk of
\* one record is not reached.
MoreChunks_OffByOne(c) == c.i + BATCH_SIZE + 1 < Len(c.usersToImport)

\* A plausible slip: the function returns from inside the loop, after its
\* first chunk.
MoreChunks_Never(c) == FALSE

\* i + BATCH_SIZE < usersToImport.length
MoreChunks(c) == c.i + BATCH_SIZE < Len(c.usersToImport)

\* The tail of one iteration of the write loop.
AfterChunk(c) ==
    IF MoreChunks(c)
    THEN [c EXCEPT !.pc = "delay", !.waitedAfter = @ \cup {c.i}]
    ELSE Return(c)

\* The synchronous head of bulkImportWhitelistUsers: step 1, and what follows
\* it up to the first await.
BeginImport(p, users, rerun) ==
    /\ LET v == ValidationPass(users)
           c == [NoCall EXCEPT
                    !.op = "import", !.users = users, !.before = store,
                    !.rerun = rerun,
                    !.prevClean = (rerun /\ call[p].faults = 0),
                    !.validUsers = v.validUsers, !.failed = v.failed,
                    !.skipped = v.skipped, !.errors = v.errors]
       IN  call' = [call EXCEPT ![p] = EnterQueryLoop(c)]
    /\ now' = now + 1
    /\ UNCHANGED <<store, admin_users, app_config, authState>>

StartImport(p, users) == CanStart(p) /\ BeginImport(p, users, FALSE)

RerunImport(p) == CanRerun(p) /\ BeginImport(p, call[p].users, TRUE)

\* The caller has read the result (or caught the error) of its call.
Dismiss(p) ==
    /\ call[p].pc = "done"
    /\ call' = [call EXCEPT ![p] = NoCall]
    /\ UNCHANGED <<store, now, admin_users, app_config, authState>>

\* A plausible slip: the records of a group whose query failed are taken
\* for stored ones.
QueryCatch_SkipGroup(c, userIds) ==
    [c EXCEPT !.faults = @ + 1, !.queryFailed = @ \cup {c.i},
              !.existingUserIds = @ \cup userIds]

\* catch (error) { console.error('Error checking existing users:', error) }
QueryCatch(c, userIds) ==
    [c EXCEPT !.faults = @ + 1, !.queryFailed = @ \cup {c.i}]

\* await getDocs(q) of step 2 resolves, or rejects and is logged.
QueryResolve(p, ok) ==
    /\ call[p].pc = "getDocs"
    /\ LET c == call[p]
           userIds == { u.userId : u \in SeqToSet(Slice(c.validUsers, c.i, QUERY_SIZE)) }
           c1 == IF ok
                 THEN [c EXCEPT !.existingUserIds = @ \cup QueryUserIdIn(store, userIds)]
                 ELSE QueryCatch(c, userIds)
           c2 == [c1 EXCEPT !.i = @ + QUERY_SIZE]
       IN  call' = [call EXCEPT ![p] =
                      IF c2.i < Len(c2.validUsers)
                      THEN [c2 EXCEPT !.storeCalls = @ + 1]
                      ELSE EnterWriteLoop(FilterExisting(c2))]
    /\ UNCHANGED <<store, now, admin_users, app_config, authState>>

\* await batch.commit() resolves: the chunk is written as a whole; or it
\* rejects, nothing is written and the fallback loop starts.
CommitResolve(p, ok) ==
    /\ call[p].pc = "commit"
    /\ LET c == call[p]
           batchUsers == Slice(c.usersToImport, c.i, BATCH_SIZE)
           c0 == [c EXCEPT !.inFlight = @ \ {<<"commit", c.i, 0>>}]
       IN  IF ok
           THEN /\ store' = CommitSets(store, batchUsers, p, now)
                /\ LET c1 == [c0 EXCEPT !.success = @ + Len(batchUsers),
                                        !.imported = @ \cup Rows(batchUsers)]
                   IN  call' = [call EXCEPT ![p] =
                           AfterChunk(Progress(c1,
                               c1.success + c1.failed + c1.skipped, Len(c1.users)))]
           ELSE /\ store' = store
                /\ call' = [call EXCEPT ![p] =
                       IssueSetDoc([c0 EXCEPT !.faults = @ + 1, !.j = 0,
                                              !.fellBack = @ \cup {c.i}])]
    /\ UNCHANGED <<now, admin_users, app_config, authState>>

\* A plausible slip: the fallback loop is left after its first record.
FallbackMore_Never(c, batchUsers) == FALSE

\* for (const user of batchUsers): another record follows
FallbackMore(c, batchUsers) == c.j + 1 < Len(batchUsers)

\* await setDoc(userRef, ...) of the fallback loop resolves or rejects.
SetDocResolve(p, ok) ==
    /\ call[p].pc = "setDoc"
    /\ LET c == call[p]
           batchUsers == Slice(c.usersToImport, c.i, BATCH_SIZE)
           user == batchUsers[c.j + 1]
           c0 == [c EXCEPT !.inFlight = @ \ {<<"setDoc", c.i, c.j>>}]
           c1 == IF ok
                 THEN [c0 EXCEPT !.success = @ + 1,
                                 !.imported = @ \cup {user.rowNumber}]
                 ELSE [c0 EXCEPT !.failed = @ + 1, !.faults = @ + 1,
                                !.errors = Append(@, RowError(user.rowNumber,
                                               "backend error", <<>>))]
           c2 == Progress(c1, c1.success + c1.failed + c1.skipped, Len(c1.users))
       IN  /\ store' = IF ok
                       THEN SetDoc(store, sanitizeDocId(user.userId),
                                   ImportDoc(user, p, now))
                       ELSE store
           /\ call' = [call EXCEPT ![p] =
                  IF FallbackMore(c, batchUsers)
                  THEN IssueSetDoc([c2 EXCEPT !.j = @ + 1])
                  ELSE AfterChunk(c2)]
    /\ UNCHANGED <<now, admin_users, app_config, authState>>

\* await delay(DELAY_MS) resolves: the next iteration starts.
DelayResolve(p) ==
    /\ call[p].pc = "delay"
    /\ call' = [call EXCEPT ![p] = IssueCommit([call[p] EXCEPT !.i = NextIndex(@, BATCH_SIZE)])]
    /\ UNCHANGED <<store, now, admin_users, app_config, authState>>

----------------------------------------------------------------------------
(* addWhitelistUser *)

\* The records the Add User form submits: its name, userId and deviceId
\* inputs are marked required (src/src/pages/Users.tsx).
AddInputs ==
    { u \in InputUsers : u.name # <<>> /\ u.userId # <<>> /\ u.deviceId # <<>> }

StartAdd(p, user) ==
    /\ CanStart(p)
    /\ call' = [call EXCEPT ![p] =
           [NoCall EXCEPT !.op = "add", !.users = <<user>>, !.before = store,
                          !.docId = sanitizeDocId(user.userId),
                          !.pc = "addGetDoc", !.storeCalls = 1]]
    /\ now' = now + 1
    /\ UNCHANGED <<store, admin_users, app_config, authState>>

\* A plausible slip: the existence check is skipped.
DocExists_Never(st, docId) == FALSE

\* existingDoc.exists()
DocExists(st, docId) == docId \in DOMAIN st

\* await getDoc(userRef) resolves or rejects.
AddGetDocResolve(p, ok) ==
    /\ call[p].pc = "addGetDoc"
    /\ LET c == call[p]
       IN  call' = [call EXCEPT ![p] =
               IF ~ok THEN Throw([c EXCEPT !.faults = @ + 1], "backend error")
               ELSE IF DocExists(store, c.docId) THEN Throw(c, "already exists")
               ELSE [c EXCEPT !.pc = "addSetDoc", !.storeCalls = @ + 1,
                              !.issued = {1}]]
    /\ UNCHANGED <<store, now, admin_users, app_config, authState>>

\* await setDoc(userRef, newUser) resolves or rejects.
AddSetDocResolve(p, ok) ==
    /\ call[p].pc = "addSetDoc"
    /\ LET c == call[p]
       IN  IF ok
           THEN /\ store' = SetDoc(store, c.docId, AddDoc(c.users[1], p, now))
                /\ call' = [call EXCEPT ![p] =
                       Return([c EXCEPT !.success = 1, !.imported = {1}])]
           ELSE /\ store' = store
                /\ call' = [call EXCEPT ![p] =
                       Throw([c EXCEPT !.faults = @ + 1], "backend error")]
    /\ UNCHANGED <<now, admin_users, app_config, authState>>

----------------------------------------------------------------------------
(* deleteAllWhitelistUsers *)

\* A plausible slip: the privilege check is left out.
Authorized_Always(isSuperAdmin) == TRUE

\* if (!isSuperAdmin) throw ...
Authorized(isSuperAdmin) == isSuperAdmin

StartDeleteAll(p, isSuperAdmin) ==
    /\ CanStart(p)
    /\ LET c == [NoCall EXCEPT !.op = "deleteAll", !.isSuperAdmin = isSuperAdmin,
                               !.before = store]
       IN  call' = [call EXCEPT ![p] =
               IF ~Authorized(isSuperAdmin)
               THEN Throw(c, "Only super admin can delete all users")
               ELSE [c EXCEPT !.pc = "delGetDocs", !.storeCalls = 1]]
    /\ now' = now + 1
    /\ UNCHANGED <<store, admin_users, app_config, authState>>

IssueDeleteCommit(c) == [c EXCEPT !.pc = "delCommit", !.storeCalls = @ + 1]

\* A plausible slip: the end of the slice is off by one.
DeleteBatch_Short(docs, i) == Slice(docs, i, DELETE_BATCH_SIZE - 1)

\* snapshot.docs.slice(i, i + BATCH_SIZE)
DeleteBatch(docs, i) == Slice(docs, i, DELETE_BATCH_SIZE)

\* await getDocs(usersRef) resolves, or rejects outside every try block.
DelGetDocsResolve(p, ok) ==
    /\ call[p].pc = "delGetDocs"
    /\ LET c == call[p]
           c1 == [c EXCEPT !.snapshot = SnapshotDocs(store), !.i = 0]
       IN  call' = [call EXCEPT ![p] =
               IF ~ok THEN Throw([c EXCEPT !.faults = @ + 1], "backend error")
               ELSE IF Len(c1.snapshot) > 0 THEN IssueDeleteCommit(c1)
               ELSE Return(c1)]
    /\ UNCHANGED <<store, now, admin_users, app_config, authState>>

\* await batch.commit() of a delete chunk resolves or rejects.
DelCommitResolve(p, ok) ==
    /\ call[p].pc = "delCommit"
    /\ LET c == call[p]
           batchDocs == DeleteBatch(c.snapshot, c.i)
           more == c.i + DELETE_BATCH_SIZE < Len(c.snapshot)
       IN  IF ok
           THEN /\ store' = DeleteDocs(store, SeqToSet(batchDocs))
                /\ LET c1 == [c EXCEPT !.success = @ + Len(batchDocs)]
                       c2 == Progress(c1, c1.success + c1.failed, Len(c1.snapshot))
                   IN  call' = [call EXCEPT ![p] =
                           IF more
                           THEN [c2 EXCEPT !.pc = "delDelay",
                                           !.waitedAfter = @ \cup {c.i}]
                           ELSE Return(c2)]
           ELSE /\ store' = store
                /\ LET c1 == [c EXCEPT
                                 !.failed = @ + Len(batchDocs), !.faults = @ + 1,
                                 !.fellBack = @ \cup {c.i},
                                 !.errors = Append(@, BatchError(c.i, DELETE_BATCH_SIZE))]
                       c2 == Progress(c1, c1.success + c1.failed, Len(c1.snapshot))
                   IN  call' = [call EXCEPT ![p] =
                           IF more
                           THEN IssueDeleteCommit([c2 EXCEPT !.i = NextIndex(@, DELETE_BATCH_SIZE)])
                           ELSE Return(c2)]
    /\ UNCHANGED <<now, admin_users, app_config, authState>>

\* await delay(500) resolves: the next iteration starts.
DelDelayResolve(p) ==
    /\ call[p].pc = "delDelay"
    /\ call' = [call EXCEPT ![p] =
           IssueDeleteCommit([call[p] EXCEPT !.i = NextIndex(@, DELETE_BATCH_SIZE)])]
    /\ UNCHANGED <<store, now, admin_users, app_config, authState>>

----------------------------------------------------------------------------
(* removeDuplicateUsers *)

\* The document ids of the snapshot, from position k on, whose userId was
\* met at an earlier position: docIds.slice(1) of every group of the map.
\* The map keeps its keys in first-insertion order, and so does this list.
RECURSIVE DuplicatesOf(_, _, _)
DuplicatesOf(st, firstIds, rest) ==
    IF firstIds = <<>> THEN <<>>
    ELSE LET userId == st[Head(firstIds)].userId
             group == SelectSeq(rest, LAMBDA d : st[d].userId = userId)
         IN  Tail(group) \o DuplicatesOf(st, Tail(firstIds), rest)

\* The first document id of every userId, in snapshot order.
RECURSIVE FirstIds(_, _, _)
FirstIds(st, docs, seen) ==
    IF docs = <<>> THEN <<>>
    ELSE IF st[Head(docs)].userId \in seen
         THEN FirstIds(st, Tail(docs), seen)
         ELSE <<Head(docs)>> \o FirstIds(st, Tail(docs), seen \cup {st[Head(docs)].userId})

\* A plausible slip: the last record of a group is kept, not the first.
Duplicates_KeepLast(st, docs) ==
    LET firstIds == FirstIds(st, docs, {})
        group(k) == SelectSeq(docs, LAMBDA d : st[d].userId = st[firstIds[k]].userId)
        RECURSIVE from(_)
        from(k) == IF k > Len(firstIds) THEN <<>>
                   ELSE SubSeq(group(k), 1, Len(group(k)) - 1) \o from(k + 1)
    IN  from(1)

\* A plausible slip: the whole group is marked, its first record included.
Duplicates_WholeGroup(st, docs) ==
    LET firstIds == FirstIds(st, docs, {})
        group(k) == SelectSeq(docs, LAMBDA d : st[d].userId = st[firstIds[k]].userId)
        RECURSIVE from(_)
        from(k) == IF k > Len(firstIds) THEN <<>>
                   ELSE (IF Len(group(k)) > 1 THEN group(k) ELSE <<>>) \o from(k + 1)
    IN  from(1)

Duplicates(st, docs) == DuplicatesOf(st, FirstIds(st, docs, {}), docs)

StartRemoveDuplicates(p, isSuperAdmin) ==
    /\ CanStart(p)
    /\ LET c == [NoCall EXCEPT !.op = "removeDuplicates",
                               !.isSuperAdmin = isSuperAdmin, !.before = store]
       IN  call' = [call EXCEPT ![p] =
               IF ~Authorized(isSuperAdmin)
               THEN Throw(c, "Only super admin can remove duplicates")
               ELSE [c EXCEPT !.pc = "dupGetDocs", !.storeCalls = 1]]
    /\ now' = now + 1
    /\ UNCHANGED <<store, admin_users, app_config, authState>>

IssueDupCommit(c) == [c EXCEPT !.pc = "dupCommit", !.storeCalls = @ + 1]

\* await getDocs(usersRef) resolves, or rejects outside every try block.
DupGetDocsResolve(p, ok) ==
    /\ call[p].pc = "dupGetDocs"
    /\ LET c == call[p]
           docs == SnapshotDocs(store)
           c1 == [c EXCEPT !.snapshot = docs, !.i = 0,
                           !.duplicates = Duplicates(store, docs)]
       IN  call' = [call EXCEPT ![p] =
               IF ~ok THEN Throw([c EXCEPT !.faults = @ + 1], "backend error")
               ELSE IF Len(c1.duplicates) > 0 THEN IssueDupCommit(c1)
               ELSE Return(c1)]
    /\ UNCHANGED <<store, now, admin_users, app_config, authState>>

\* await batch.commit() of a chunk of duplicates resolves or rejects.
DupCommitResolve(p, ok) ==
    /\ call[p].pc = "dupCommit"
    /\ LET c == call[p]
           batchIds == DeleteBatch(c.duplicates, c.i)
           more == c.i + DELETE_BATCH_SIZE < Len(c.duplicates)
       IN  IF ok
           THEN /\ store' = DeleteDocs(store, SeqToSet(batchIds))
                /\ LET c1 == [c EXCEPT !.removed = @ + Len(batchIds)]
                       c2 == Progress(c1, c1.removed, Len(c1.duplicates))
                   IN  call' = [call EXCEPT ![p] =
                           IF more
                           THEN [c2 EXCEPT !.pc = "dupDelay",
                                           !.waitedAfter = @ \cup {c.i}]
                           ELSE Return(c2)]
           ELSE /\ store' = store
                /\ LET c1 == [c EXCEPT
                                 !.faults = @ + 1, !.fellBack = @ \cup {c.i},
                                 !.errors = Append(@, BatchError(c.i, DELETE_BATCH_SIZE))]
                   IN  call' = [call EXCEPT ![p] =
                           IF more
                           THEN IssueDupCommit([c1 EXCEPT !.i = NextIndex(@, DELETE_BATCH_SIZE)])
                           ELSE Return(c1)]
    /\ UNCHANGED <<now, admin_users, app_config, authState>>

\* return { totalScanned, duplicatesFound, duplicatesRemoved, errors }
DupResult(c) ==
    [totalScanned |-> Len(c.snapshot), duplicatesFound |-> Len(c.duplicates),
     duplicatesRemoved |-> c.removed, errors |-> c.errors]

\* await delay(500) resolves: the next iteration starts.
DupDelayResolve(p) ==
    /\ call[p].pc = "dupDelay"
    /\ call' = [call EXCEPT ![p] =
           IssueDupCommit([call[p] EXCEPT !.i = NextIndex(@, DELETE_BATCH_SIZE)])]
    /\ UNCHANGED <<store, now, admin_users, app_config, authState>>

----------------------------------------------------------------------------
(* The service used by one caller at a time, from an empty collection *)

Init ==
    /\ store = EmptyStore
    /\ admin_users = EmptyStore
    /\ app_config = EmptyStore
    /\ authState = NoUser
    /\ call = [p \in Procs |-> NoCall]
    /\ now = 0

ImportStep(p, inputs) ==
    \/ \E users \in inputs : StartImport(p, users)
    \/ RerunImport(p)
    \/ \E ok \in BOOLEAN : QueryResolve(p, ok)
    \/ \E ok \in BOOLEAN : CommitResolve(p, ok)
    \/ \E ok \in BOOLEAN : SetDocResolve(p, ok)
    \/ DelayResolve(p)

AddStep(p) ==
    \/ \E user \in AddInputs : StartAdd(p, user)
    \/ \E ok \in BOOLEAN : AddGetDocResolve(p, ok)
    \/ \E ok \in BOOLEAN : AddSetDocResolve(p, ok)

AdminStep(p) ==
    \/ \E isSuperAdmin \in BOOLEAN : StartDeleteAll(p, isSuperAdmin)
    \/ \E ok \in BOOLEAN : DelGetDocsResolve(p, ok)
    \/ \E ok \in BOOLEAN : DelCommitResolve(p, ok)
    \/ DelDelayResolve(p)
    \/ \E isSuperAdmin \in BOOLEAN : StartRemoveDuplicates(p, isSuperAdmin)
    \/ \E ok \in BOOLEAN : DupGetDocsResolve(p, ok)
    \/ \E ok \in BOOLEAN : DupCommitResolve(p, ok)
    \/ DupDelayResolve(p)

Next == ImportStep(1, ImportInputs) \/ AddStep(1) \/ Dismiss(1)

Spec == Init /\ [][Next]_vars

----------------------------------------------------------------------------
(* The service on a collection that holds duplicates *)

\* A document of a collection in use: updateWhitelistUser (the Edit User
\* form) rewrites the userId field of a document and leaves its id alone, so
\* the documents added for userIds "1" to "4" can carry any userId.
StoredDoc(userId) ==
    [name |-> <<"n">>, email |-> <<>>, userId |-> userId, deviceId |-> <<"d">>,
     isActive |-> TRUE, createdAt |-> 0, addedAt |-> 0, addedBy |-> 1,
     lastLogin |-> 0]

EditedIds == { <<"1">>, <<"2">>, <<"3">>, <<"4">> }

EditedStores ==
    UNION { { [d \in ids |-> StoredDoc(f[d])] : f \in [ids -> { <<"a">>, <<"b">> }] }
            : ids \in SUBSET EditedIds }

\* A few import files: empty, clean, with a bad row, with a repeated userId,
\* and one of three records that are all accepted.
AdminImportInputs ==
    LET good(u) == User(<<"n">>, Absent, u, <<"d">>, "undefined")
        bad == User(<<" ">>, Absent, <<"a">>, <<"d">>, "undefined")
    IN  { <<>>, <<good(<<"a">>)>>, <<bad, good(<<"b">>)>>,
          <<good(<<"a">>), good(<<"a">>)>>,
          <<good(<<"a">>), good(<<"b">>), good(<<"c">>)>> }

InitAdmin ==
    /\ store \in EditedStores
    /\ admin_users = EmptyStore
    /\ app_config = EmptyStore
    /\ authState = NoUser
    /\ call = [p \in Procs |-> NoCall]
    /\ now = 0

NextAdmin ==
    \/ AdminStep(1)
    \/ AddStep(1)
    \/ ImportStep(1, AdminImportInputs)
    \/ Dismiss(1)

SpecAdmin == InitAdmin /\ [][NextAdmin]_vars

----------------------------------------------------------------------------
(* bootstrapSuperAdmin, called by the auth-state listener and by login() *)

\* Number of calls made in one run of the admin console.
MaxConsoleCalls == 3

\* import.meta.env.VITE_SUPER_ADMIN_EMAIL
SUPER_ADMIN_EMAIL == "super@x"

\* The e-mail addresses of the accounts that sign in.
Emails == { SUPER_ADMIN_EMAIL, "admin@x" }

\* user.uid of the signed-in account
Uid(email) == <<"uid", email>>

CanCall(p) == call[p].pc = "idle" /\ now < MaxConsoleCalls

\* query(adminsRef, where('email', '==', email))
AdminsByEmail(admins, email) == { d \in DOMAIN admins : admins[d].email = email }

\* addDoc stores the data under an id no document of the collection has.
AutoId(coll) == CHOOSE n \in 1..(Cardinality(DOMAIN coll) + 1) : n \notin DOMAIN coll

superAdminData(email, userId, t) ==
    [email |-> email, name |-> "Super Administrator", userId |-> userId,
     role |-> "super_admin", isActive |-> TRUE, createdAt |-> t,
     createdBy |-> "system", lastLogin |-> t]

StartBootstrap(p, email) ==
    /\ CanCall(p)
    /\ LET c == [NoCall EXCEPT !.op = "bootstrap", !.email = email]
       IN  call' = [call EXCEPT ![p] =
               IF SUPER_ADMIN_EMAIL = ""
               THEN Throw(c, "Super admin email not configured")
               ELSE IF email # SUPER_ADMIN_EMAIL
               THEN Throw(c, "Not authorized to bootstrap super admin")
               ELSE [c EXCEPT !.pc = "bootGetDocs", !.storeCalls = 1]]
    /\ now' = now + 1
    /\ UNCHANGED <<store, admin_users, app_config, authState>>

\* const existing = await this.getAdminByEmail(email); if (existing) ...
Existing(admins, email) == AdminsByEmail(admins, email) # {}

\* await this.getAdminByEmail(email) resolves or rejects.
BootGetDocsResolve(p, ok) ==
    /\ call[p].pc = "bootGetDocs"
    /\ LET c == call[p]
       IN  call' = [call EXCEPT ![p] =
               IF ~ok THEN Throw([c EXCEPT !.faults = @ + 1], "backend error")
               ELSE IF Existing(admin_users, c.email) THEN Return(c)
               ELSE [c EXCEPT !.pc = "bootAddDoc", !.storeCalls = @ + 1,
                              !.data = superAdminData(c.email, Uid(c.email), now)]]
    /\ UNCHANGED <<store, now, admin_users, app_config, authState>>

\* await addDoc(adminsRef, superAdminData) resolves or rejects.
BootAddDocResolve(p, ok) ==
    /\ call[p].pc = "bootAddDoc"
    /\ LET c == call[p]
       IN  IF ok
           THEN /\ admin_users' = SetDoc(admin_users, AutoId(admin_users), c.data)
                /\ call' = [call EXCEPT ![p] = Return([c EXCEPT !.success = 1])]
           ELSE /\ admin_users' = admin_users
                /\ call' = [call EXCEPT ![p] =
                       Throw([c EXCEPT !.faults = @ + 1], "backend error")]
    /\ UNCHANGED <<store, now, app_config, authState>>

----------------------------------------------------------------------------
(* getRegistrationConfig and updateRegistrationConfig *)

\* doc(db, 'app_config', 'registration_config')
configRef == "registration_config"

defaultConfig(t) ==
    [id |-> "registration_config",
     registrationUrl |-> "https://stockity.id/registered?a=25db72fbbc00",
     whatsappHelpUrl |-> "https://wa.me/6285959860015",
     isActive |-> TRUE, description |-> "Default registration link",
     createdAt |-> t, updatedAt |-> t, updatedBy |-> ""]

\* The form data the Settings page saves.
ConfigInputs ==
    { [registrationUrl |-> "https://new", whatsappHelpUrl |-> "https://wa.me/1"] }

StartGetConfig(p) ==
    /\ CanCall(p)
    /\ call' = [call EXCEPT ![p] =
           [NoCall EXCEPT !.op = "getConfig", !.pc = "cfgGetDoc", !.storeCalls = 1]]
    /\ now' = now + 1
    /\ UNCHANGED <<store, admin_users, app_config, authState>>

\* await getDoc(configRef) resolves or rejects.
CfgGetDocResolve(p, ok) ==
    /\ call[p].pc = "cfgGetDoc"
    /\ LET c == call[p]
       IN  call' = [call EXCEPT ![p] =
               IF ~ok THEN Throw([c EXCEPT !.faults = @ + 1], "backend error")
               ELSE IF DocExists(app_config, configRef)
               THEN Return([c EXCEPT !.data = app_config[configRef]])
               ELSE [c EXCEPT !.pc = "cfgSetDoc", !.storeCalls = @ + 1,
                              !.data = defaultConfig(now)]]
    /\ UNCHANGED <<store, now, admin_users, app_config, authState>>

\* await setDoc(configRef, defaultConfig) resolves or rejects.
CfgSetDocResolve(p, ok) ==
    /\ call[p].pc = "cfgSetDoc"
    /\ LET c == call[p]
       IN  IF ok
           THEN /\ app_config' = SetDoc(app_config, configRef, c.data)
                /\ call' = [call EXCEPT ![p] =
                       Return([c EXCEPT !.success = 1, !.replaced = app_config])]
           ELSE /\ app_config' = app_config
                /\ call' = [call EXCEPT ![p] =
                       Throw([c EXCEPT !.faults = @ + 1], "backend error")]
    /\ UNCHANGED <<store, now, admin_users, authState>>

StartUpdateConfig(p, config) ==
    /\ CanCall(p)
    /\ call' = [call EXCEPT ![p] =
           [NoCall EXCEPT !.op = "updateConfig", !.pc = "cfgUpdateDoc",
                          !.storeCalls = 1,
                          !.data = [registrationUrl |-> config.registrationUrl,
                                    whatsappHelpUrl |-> config.whatsappHelpUrl,
                                    updatedAt |-> now]]]
    /\ now' = now + 1
    /\ UNCHANGED <<store, admin_users, app_config, authState>>

\* updateDoc replaces the fields it is given and keeps the others.
UpdateDoc(st, docId, fields) ==
    [st EXCEPT ![docId] =
        [f \in DOMAIN st[docId] |->
            IF f \in DOMAIN fields THEN fields[f] ELSE st[docId][f]]]

\* await updateDoc(configRef, ...) resolves, or rejects: the store rejects
\* the update of a document that does not exist.
CfgUpdateDocResolve(p, ok) ==
    /\ call[p].pc = "cfgUpdateDoc"
    /\ LET c == call[p]
       IN  IF ok /\ DocExists(app_config, configRef)
           THEN /\ app_config' = UpdateDoc(app_config, configRef, c.data)
                /\ call' = [call EXCEPT ![p] = Return([c EXCEPT !.success = 1])]
           ELSE /\ app_config' = app_config
                /\ call' = [call EXCEPT ![p] =
                       IF ok THEN Throw(c, "not-found")
                       ELSE Throw([c EXCEPT !.faults = @ + 1], "backend error")]
    /\ UNCHANGED <<store, now, admin_users, authState>>

----------------------------------------------------------------------------
(* The admin console: two handlers at a time, on a new project *)

BootstrapStep(p) ==
    \/ \E email \in Emails : StartBootstrap(p, email)
    \/ \E ok \in BOOLEAN : BootGetDocsResolve(p, ok)
    \/ \E ok \in BOOLEAN : BootAddDocResolve(p, ok)

ConfigStep(p) ==
    \/ StartGetConfig(p)
    \/ \E ok \in BOOLEAN : CfgGetDocResolve(p, ok)
    \/ \E ok \in BOOLEAN : CfgSetDocResolve(p, ok)
    \/ \E config \in ConfigInputs : StartUpdateConfig(p, config)
    \/ \E ok \in BOOLEAN : CfgUpdateDocResolve(p, ok)

InitConsole ==
    /\ store = EmptyStore
    /\ admin_users = EmptyStore
    /\ app_config = EmptyStore
    /\ authState = NoUser
    /\ call = [p \in Procs |-> NoCall]
    /\ now = 0

NextConsole == \E p \in Procs : BootstrapStep(p) \/ ConfigStep(p) \/ Dismiss(p)

SpecConsole == InitConsole /\ [][NextConsole]_vars

----------------------------------------------------------------------------
(* Two callers at a time on the whitelist: two admins, or two tabs *)

\* The files the two callers import: one record, and three records that
\* span two write chunks; both hold userId "a".
RaceImportInputs ==
    LET good(u) == User(<<"n">>, Absent, u, <<"d">>, "undefined")
    IN  { <<good(<<"a">>)>>, <<good(<<"a">>), good(<<"b">>), good(<<"c">>)>> }

NextRace == \E p \in Procs : ImportStep(p, RaceImportInputs) \/ AddStep(p) \/ Dismiss(p)

SpecRace == Init /\ [][NextRace]_vars

----------------------------------------------------------------------------
(* One caller whose store calls and delays all resolve in the end *)

\* Collections of documents that all carry one userId.
LiveStores == { [d \in ids |-> StoredDoc(<<"a">>)] : ids \in SUBSET EditedIds }

InitLive ==
    /\ store \in LiveStores
    /\ admin_users = EmptyStore
    /\ app_config = EmptyStore
    /\ authState = NoUser
    /\ call = [p \in Procs |-> NoCall]
    /\ now = 0

NextLive == AdminStep(1) \/ ImportStep(1, AdminImportInputs) \/ Dismiss(1)

\* The store answers the call process p is suspended on, or its timer fires.
Resolve(p) ==
    \/ \E ok \in BOOLEAN : QueryResolve(p, ok)
    \/ \E ok \in BOOLEAN : CommitResolve(p, ok)
    \/ \E ok \in BOOLEAN : SetDocResolve(p, ok)
    \/ DelayResolve(p)
    \/ \E ok \in BOOLEAN : DelGetDocsResolve(p, ok)
    \/ \E ok \in BOOLEAN : DelCommitResolve(p, ok)
    \/ DelDelayResolve(p)
    \/ \E ok \in BOOLEAN : DupGetDocsResolve(p, ok)
    \/ \E ok \in BOOLEAN : DupCommitResolve(p, ok)
    \/ DupDelayResolve(p)

SpecLive == InitLive /\ [][NextLive]_vars /\ \A p \in Procs : WF_vars(Resolve(p))

----------------------------------------------------------------------------
(* AuthProvider: the onAuthStateChanged handler *)

\* An admin_users document of an ordinary admin.
AdminDoc(email) ==
    [email |-> email, name |-> "Admin", userId |-> Uid(email),
     role |-> "admin", isActive |-> TRUE, createdAt |-> 0,
     createdBy |-> "system", lastLogin |-> 0]

\* The admin_users collection the console starts with: empty, or with the
\* record of one ordinary admin.
AdminStores == { EmptyStore, [d \in {1} |-> AdminDoc("admin@x")] }

\* The accounts the auth state changes to: signed out, the super admin, an
\* admin, an account that is no admin.
AuthUsers == { "none" } \cup Emails \cup { "guest@x" }

\* checkIsAdmin
checkIsAdmin(admins, email) ==
    \/ email = SUPER_ADMIN_EMAIL
    \/ \E d \in DOMAIN admins : admins[d].email = email /\ admins[d].isActive

\* checkIsSuperAdmin
checkIsSuperAdmin(admins, email) ==
    \/ email = SUPER_ADMIN_EMAIL
    \/ \E d \in DOMAIN admins :
          /\ admins[d].email = email /\ admins[d].role = "super_admin"
          /\ admins[d].isActive

\* setIsAdmin(adminCheck); setIsSuperAdmin(superAdminCheck)
SetFlags(a, adminCheck, superAdminCheck) ==
    [a EXCEPT !.isAdmin = adminCheck, !.isSuperAdmin = superAdminCheck]

\* The handler starts: setUser(user), and the code up to its first store
\* call; for no user, the flags are cleared and the handler is over.
AuthStateChanged(p, u) ==
    /\ CanCall(p)
    /\ LET c == [NoCall EXCEPT !.op = "authHandler", !.email = u, !.event = now + 1]
           a == [authState EXCEPT !.user = u]
       IN  IF u = "none"
           THEN /\ authState' = SetFlags(a, FALSE, FALSE)
                /\ call' = [call EXCEPT ![p] = Return(c)]
           ELSE /\ authState' = a
                /\ call' = [call EXCEPT ![p] =
                       IF SUPER_ADMIN_EMAIL # "" /\ u = SUPER_ADMIN_EMAIL
                       THEN [c EXCEPT !.pc = "hBootGetDocs", !.storeCalls = 1]
                       ELSE [c EXCEPT !.pc = "hCheckAdmin", !.storeCalls = 1]]
    /\ now' = now + 1
    /\ UNCHANGED <<store, admin_users, app_config>>

\* The super admin after the bootstrap attempt: both checks answer true
\* without a store call, the flags are set and updateLastLogin starts.
AfterBootstrap(c) == [c EXCEPT !.adminCheck = TRUE, !.pc = "hLastLoginGet",
                               !.storeCalls = @ + 1]

\* await this.getAdminByEmail(email) of bootstrapSuperAdmin resolves or
\* rejects; the handler catches the rejection and goes on.
HBootGetDocsResolve(p, ok) ==
    /\ call[p].pc = "hBootGetDocs"
    /\ LET c == call[p]
       IN  IF ok /\ ~Existing(admin_users, c.email)
           THEN /\ call' = [call EXCEPT ![p] =
                       [c EXCEPT !.pc = "hBootAddDoc", !.storeCalls = @ + 1,
                                 !.data = superAdminData(c.email, Uid(c.email), now)]]
                /\ authState' = authState
           ELSE /\ call' = [call EXCEPT ![p] =
                       AfterBootstrap([c EXCEPT !.faults = IF ok THEN @ ELSE @ + 1])]
                /\ authState' = SetFlags(authState, TRUE, TRUE)
    /\ UNCHANGED <<store, now, admin_users, app_config>>

\* await addDoc(adminsRef, superAdminData) resolves or rejects.
HBootAddDocResolve(p, ok) ==
    /\ call[p].pc = "hBootAddDoc"
    /\ LET c == call[p]
       IN  /\ admin_users' = IF ok
                             THEN SetDoc(admin_users, AutoId(admin_users), c.data)
                             ELSE admin_users
           /\ call' = [call EXCEPT ![p] =
                  AfterBootstrap([c EXCEPT !.faults = IF ok THEN @ ELSE @ + 1])]
           /\ authState' = SetFlags(authState, TRUE, TRUE)
    /\ UNCHANGED <<store, now, app_config>>

\* await firebaseService.checkIsAdmin(user.email) resolves, or rejects and
\* the catch block clears the flags.
HCheckAdminResolve(p, ok) ==
    /\ call[p].pc = "hCheckAdmin"
    /\ LET c == call[p]
       IN  IF ok
           THEN /\ call' = [call EXCEPT ![p] =
                       [c EXCEPT !.adminCheck = checkIsAdmin(admin_users, c.email),
                                 !.pc = "hCheckSuper", !.storeCalls = @ + 1]]
                /\ authState' = authState
           ELSE /\ call' = [call EXCEPT ![p] = Return([c EXCEPT !.faults = @ + 1])]
                /\ authState' = SetFlags(authState, FALSE, FALSE)
    /\ UNCHANGED <<store, now, admin_users, app_config>>

\* await firebaseService.checkIsSuperAdmin(user.email) resolves: the flags
\* are set and, for an admin, updateLastLogin starts; or it rejects.
HCheckSuperResolve(p, ok) ==
    /\ call[p].pc = "hCheckSuper"
    /\ LET c == call[p]
       IN  IF ok
           THEN /\ call' = [call EXCEPT ![p] =
                       IF c.adminCheck
                       THEN [c EXCEPT !.pc = "hLastLoginGet", !.storeCalls = @ + 1]
                       ELSE Return(c)]
                /\ authState' = SetFlags(authState, c.adminCheck,
                                         checkIsSuperAdmin(admin_users, c.email))
           ELSE /\ call' = [call EXCEPT ![p] = Return([c EXCEPT !.faults = @ + 1])]
                /\ authState' = SetFlags(authState, FALSE, FALSE)
    /\ UNCHANGED <<store, now, admin_users, app_config>>

\* snapshot.docs[0] of getAdminByEmail
FirstAdmin(admins, email) ==
    CHOOSE d \in AdminsByEmail(admins, email) :
        \A e \in AdminsByEmail(admins, email) : d <= e

\* updateLastLogin: await this.getAdminByEmail(email) resolves or rejects.
HLastLoginGetResolve(p, ok) ==
    /\ call[p].pc = "hLastLoginGet"
    /\ LET c == call[p]
       IN  call' = [call EXCEPT ![p] =
               IF ~ok THEN Return([c EXCEPT !.faults = @ + 1])
               ELSE IF Existing(admin_users, c.email)
               THEN [c EXCEPT !.pc = "hLastLoginUpdate", !.storeCalls = @ + 1,
                              !.docId = FirstAdmin(admin_users, c.email),
                              !.data = [lastLogin |-> now]]
               ELSE Return(c)]
    /\ UNCHANGED <<store, now, admin_users, app_config, authState>>

\* updateLastLogin: await this.updateAdminUser(admin.id, ...) resolves or
\* rejects.
HLastLoginUpdateResolve(p, ok) ==
    /\ call[p].pc = "hLastLoginUpdate"
    /\ LET c == call[p]
       IN  /\ admin_users' = IF ok /\ DocExists(admin_users, c.docId)
                             THEN UpdateDoc(admin_users, c.docId, c.data)
                             ELSE admin_users
           /\ call' = [call EXCEPT ![p] =
                  Return([c EXCEPT !.faults = IF ok THEN @ ELSE @ + 1])]
    /\ UNCHANGED <<store, now, app_config, authState>>

AuthStep(p) ==
    \/ \E u \in AuthUsers : AuthStateChanged(p, u)
    \/ \E ok \in BOOLEAN : HBootGetDocsResolve(p, ok)
    \/ \E ok \in BOOLEAN : HBootAddDocResolve(p, ok)
    \/ \E ok \in BOOLEAN : HCheckAdminResolve(p, ok)
    \/ \E ok \in BOOLEAN : HCheckSuperResolve(p, ok)
    \/ \E ok \in BOOLEAN : HLastLoginGetResolve(p, ok)
    \/ \E ok \in BOOLEAN : HLastLoginUpdateResolve(p, ok)

InitAuth ==
    /\ store = EmptyStore
    /\ admin_users \in AdminStores
    /\ app_config = EmptyStore
    /\ authState = NoUser
    /\ call = [p \in Procs |-> NoCall]
    /\ now = 0

NextAuth == \E p \in Procs : AuthStep(p) \/ Dismiss(p)

SpecAuth == InitAuth /\ [][NextAuth]_vars

----------------------------------------------------------------------------
(* Properties *)

Returned(p, op) == call[p].op = op /\ call[p].pc = "done" /\ call[p].thrown = ""

\* The field rules as the specification words them: name, userId and
\* deviceId are not empty after trimming, and an email that is present
\* contains '@'.
NonBlank(x) == x # Absent /\ \E k \in 1..Len(x) : x[k] \notin Whitespace

PassesFieldRules(user) ==
    /\ NonBlank(user.name)
    /\ NonBlank(user.userId)
    /\ NonBlank(user.deviceId)
    /\ (user.email \in {Absent, <<>>} \/ \E k \in 1..Len(user.email) : user.email[k] = "@")

\* The rows of the input that pass the four field rules.
ValidRows(users) == { k \in 1..Len(users) : PassesFieldRules(users[k]) }

InvalidRows(users) == (1..Len(users)) \ ValidRows(users)

\* The valid rows whose userId, as written in the input, stands in an
\* earlier valid row.
DuplicateRows(users) ==
    { k \in ValidRows(users) :
        \E j \in ValidRows(users) : j < k /\ users[j].userId = users[k].userId }

\* The positions of the error strings that name row k.
ErrorsOfRow(c, k) == { e \in 1..Len(c.errors) : c.errors[e].n = k }

ErrorsWith(c, message) ==
    { e \in 1..Len(c.errors) : c.errors[e].message = message }

UserIdsIn(st) == { st[d].userId : d \in DOMAIN st }

\* C1: from an empty collection, after any sequence of addWhitelistUser and
\* bulkImportWhitelistUsers calls, each run to completion before the next
\* starts, no two stored documents have the same userId field.
C1_UniqueUserId ==
    \A d1, d2 \in DOMAIN store :
        store[d1].userId = store[d2].userId => d1 = d2

\* An add has succeeded on a collection an earlier call had written to.
C1_Witness ==
    /\ Returned(1, "add")
    /\ call[1].before # EmptyStore
    /\ Cardinality(DOMAIN store) >= 2

\* C2 as claimed: an import repeated on the same input, with no operation in
\* between and no store call failing in either run, returns success = 0 and
\* skipped = the number of input records that pass the field rules.
C2_RerunSkipsAll ==
    \A p \in Procs :
        (Returned(p, "import") /\ call[p].rerun /\ call[p].prevClean
            /\ call[p].faults = 0)
        => /\ call[p].success = 0
           /\ call[p].skipped = Cardinality(ValidRows(call[p].users))

\* C3 as claimed, userIds read as normalized (trimmed): for an input whose
\* records all pass the field rules, with pairwise distinct userIds none of
\* which is stored, and no store call failing, the import returns
\* success = n, failed = 0, skipped = 0 and no error, and afterwards the
\* collection holds a document for every input userId.
C3_CleanImport ==
    \A p \in Procs :
        LET c == call[p]
            n == Len(c.users)
            ids == { trim(c.users[k].userId) : k \in 1..n }
        IN  (/\ Returned(p, "import")
             /\ c.faults = 0
             /\ ValidRows(c.users) = 1..n
             /\ Cardinality(ids) = n
             /\ ids \cap UserIdsIn(c.before) = {})
            => /\ c.success = n /\ c.failed = 0 /\ c.skipped = 0
               /\ c.errors = <<>>
               /\ ids \subseteq UserIdsIn(store)

DuplicateMessage == "Duplicate userId in import file"

ExistsMessage == "already exists in database"

ImportPastValidation(p) == call[p].op = "import"

\* The first valid row with the userId of row k.
FirstRowOf(users, k) ==
    CHOOSE j \in ValidRows(users) :
        /\ users[j].userId = users[k].userId
        /\ \A h \in ValidRows(users) : users[h].userId = users[k].userId => j <= h

\* What the counters of a returned import are made of.
CountersSplit(c) ==
    /\ c.failed = Cardinality(InvalidRows(c.users))
                    + Cardinality(ErrorsWith(c, "backend error"))
    /\ c.skipped = Cardinality(DuplicateRows(c.users))
                    + Cardinality(ErrorsWith(c, ExistsMessage))

\* C4: a record that passes the field rules and whose userId equals that of
\* an earlier accepted record of the same input is counted in skipped, not
\* in failed, gets one 'Duplicate userId ... in import file' error string and
\* is never written, while the earlier record stays in the working set and
\* is imported.
C4_FileDuplicateSkipped ==
    \A p \in Procs :
        LET c == call[p] IN
        ImportPastValidation(p) =>
            /\ \A k \in DuplicateRows(c.users) :
                 /\ \E e \in 1..Len(c.errors) :
                      /\ ErrorsOfRow(c, k) = {e}
                      /\ c.errors[e].message = DuplicateMessage
                      /\ c.errors[e].userId = c.users[k].userId
                 /\ k \notin c.issued
                 /\ FirstRowOf(c.users, k) \in Rows(c.validUsers)
                 /\ (/\ Returned(p, "import")
                     /\ c.faults = 0
                     /\ trim(c.users[k].userId) \notin UserIdsIn(c.before))
                    => FirstRowOf(c.users, k) \in c.imported
            /\ Returned(p, "import") => CountersSplit(c)

\* The scenario of the specification: row 2 repeats the userId of row 1.
C4_Witness ==
    /\ Returned(1, "import")
    /\ DuplicateRows(call[1].users) = {2}
    /\ call[1].imported = {1}
    /\ call[1].success = 1 /\ call[1].skipped = 1 /\ call[1].failed = 0

\* C5: a record that breaks a field rule is counted exactly once in failed,
\* is never written, and does not stop the processing of the other rows.
C5_InvalidRowFails ==
    \A p \in Procs :
        LET c == call[p] IN
        ImportPastValidation(p) =>
            /\ \A k \in InvalidRows(c.users) :
                 /\ Cardinality(ErrorsOfRow(c, k)) = 1
                 /\ \A e \in ErrorsOfRow(c, k) :
                      c.errors[e].message \in
                          {"Name is required", "Valid email is required",
                           "User ID is required", "Device ID is required"}
                 /\ k \notin c.issued
            /\ Returned(p, "import") =>
                 /\ CountersSplit(c)
                 /\ \A r \in 1..Len(c.users) :
                      r \in c.imported \/ ErrorsOfRow(c, r) # {}

\* A row with an empty deviceId fails between two rows that are imported.
C5_Witness ==
    /\ Returned(1, "import")
    /\ Len(call[1].users) = 3
    /\ InvalidRows(call[1].users) = {2}
    /\ call[1].users[2].deviceId = <<>>
    /\ call[1].imported = {1, 3}
    /\ call[1].failed = 1

\* C6: every error string is tagged 'Row k', k being the 1-based position in
\* the input list of the record it is about, and none names a row whose
\* record was imported.
C6_RowNumbers ==
    \A p \in Procs :
        LET c == call[p] IN
        ImportPastValidation(p) =>
            \A e \in 1..Len(c.errors) :
                LET err == c.errors[e] IN
                /\ err.tag = "Row"
                /\ err.n \in 1..Len(c.users)
                /\ err.n \notin c.imported
                /\ CASE err.message = DuplicateMessage ->
                          /\ err.n \in DuplicateRows(c.users)
                          /\ err.userId = c.users[err.n].userId
                     [] err.message = ExistsMessage ->
                          /\ err.n \in ValidRows(c.users)
                          /\ err.userId = trim(c.users[err.n].userId)
                     [] err.message = "backend error" ->
                          err.n \in ValidRows(c.users) \cap c.issued
                     [] OTHER -> err.n \in InvalidRows(c.users)

\* The scenario of the specification: row 3 is the only bad row.
C6_Witness ==
    /\ Returned(1, "import")
    /\ Len(call[1].users) = 3
    /\ call[1].imported = {1, 2}
    /\ Len(call[1].errors) = 1
    /\ call[1].errors[1].n = 3
    /\ call[1].errors[1].message = "Name is required"

ImportPastFilter(p) ==
    call[p].op = "import" /\ call[p].pc \in {"commit", "setDoc", "delay", "done"}

\* C7: an accepted record whose userId the existence pre-check reports as
\* stored is counted in skipped with an 'already exists in database' error
\* string and no write is issued for it; the userId alone decides: a record is
\* dropped exactly when a stored document has its userId.
C7_ExistingSkipped ==
    \A p \in Procs :
        LET c == call[p] IN
        ImportPastFilter(p) =>
            /\ \A k \in 1..Len(c.validUsers) :
                 LET v == c.validUsers[k] IN
                 IF v.userId \in c.existingUserIds
                 THEN /\ \E e \in 1..Len(c.errors) :
                           /\ { x \in ErrorsOfRow(c, v.rowNumber) :
                                  c.errors[x].message # "backend error" } = {e}
                           /\ c.errors[e].message = ExistsMessage
                           /\ c.errors[e].userId = v.userId
                      /\ v.rowNumber \notin c.issued
                 ELSE v \in SeqToSet(c.usersToImport)
            /\ c.faults = 0 =>
                 c.existingUserIds =
                     { c.validUsers[k].userId : k \in 1..Len(c.validUsers) }
                        \cap UserIdsIn(c.before)
            /\ Returned(p, "import") => CountersSplit(c)

\* A record is skipped for its userId although the stored document differs
\* from it in its name, and the record next to it is imported.
C7_Witness ==
    /\ Returned(1, "import")
    /\ call[1].skipped = 1 /\ call[1].success = 1
    /\ \E k \in 1..Len(call[1].validUsers) :
         LET v == call[1].validUsers[k] IN
         /\ v.userId \in call[1].existingUserIds
         /\ \E d \in DOMAIN call[1].before :
              /\ call[1].before[d].userId = v.userId
              /\ call[1].before[d].name # v.name
              /\ store[d] = call[1].before[d]

\* C8: when the atomic write of a chunk fails, every record of the chunk is
\* written individually, each counting as one success or as one failure with
\* an error string: a chunk with one failing record yields one failure and a
\* success for each of the others.
C8_FallbackPerRecord ==
    \A p \in Procs :
        LET c == call[p] IN
        Returned(p, "import") =>
            /\ \A i \in c.fellBack :
                 \A r \in Rows(Slice(c.usersToImport, i, BATCH_SIZE)) :
                    /\ Cardinality({ e \in ErrorsOfRow(c, r) :
                                       c.errors[e].message = "backend error" })
                         = (IF r \in c.imported THEN 0 ELSE 1)
            /\ c.success = Cardinality(c.imported)
            /\ CountersSplit(c)

\* The commit of a chunk of two records fails; one of the two is then
\* written, the other fails.
C8_Witness ==
    /\ Returned(1, "import")
    /\ call[1].fellBack = {0}
    /\ Len(call[1].usersToImport) = 2
    /\ call[1].success = 1 /\ call[1].failed = 1
    /\ Cardinality(DOMAIN store) = Cardinality(DOMAIN call[1].before) + 1

AdminCall(p) == call[p].op \in {"deleteAll", "removeDuplicates"}

\* C9: deleteAllWhitelistUsers and removeDuplicateUsers called with
\* isSuperAdmin = false fail before any store read or delete is issued, and
\* leave the collection as it was.
C9_UnauthorizedTouchesNothing ==
    \A p \in Procs :
        (AdminCall(p) /\ ~call[p].isSuperAdmin)
        => /\ call[p].pc = "done"
           /\ call[p].thrown \in {"Only super admin can delete all users",
                                  "Only super admin can remove duplicates"}
           /\ call[p].storeCalls = 0
           /\ store = call[p].before

\* removeDuplicateUsers(false) on a collection that holds duplicates.
C9_Witness ==
    /\ call[1].op = "removeDuplicates"
    /\ ~call[1].isSuperAdmin
    /\ call[1].pc = "done"
    /\ \E d1, d2 \in DOMAIN store : d1 # d2 /\ store[d1].userId = store[d2].userId

BusinessFailures ==
    {"already exists", "Only super admin can delete all users",
     "Only super admin can remove duplicates"}

\* C10 as claimed: none of the four operations throws for an expected
\* business failure (validation, duplicate userId, missing privilege).
C10_NeverThrowsBusinessFailure ==
    \A p \in Procs : call[p].thrown \notin BusinessFailures

\* C10 as amended: bulkImportWhitelistUsers never throws for a validation
\* failure or a duplicate userId and reports them in failed, skipped and
\* errors; addWhitelistUser throws 'already exists' exactly when the document
\* of the userId exists; deleteAllWhitelistUsers and removeDuplicateUsers throw
\* exactly when isSuperAdmin is false.
C10_BusinessFailures ==
    \A p \in Procs :
        LET c == call[p] IN
        /\ c.op = "import" =>
             /\ c.thrown = ""
             /\ c.pc = "done" =>
                  /\ CountersSplit(c)
                  /\ \A k \in InvalidRows(c.users) \cup DuplicateRows(c.users) :
                       ErrorsOfRow(c, k) # {}
        /\ (c.op = "add" /\ c.pc = "done" /\ c.faults = 0) =>
             /\ c.thrown = "already exists" <=> c.docId \in DOMAIN c.before
             /\ c.thrown = "" <=> c.docId \notin DOMAIN c.before
        /\ (AdminCall(p) /\ c.pc = "done" /\ c.faults = 0) =>
             (c.thrown \in BusinessFailures <=> ~c.isSuperAdmin)

\* addWhitelistUser has thrown for a userId whose document exists.
C10_Witness ==
    /\ call[1].op = "add"
    /\ call[1].pc = "done"
    /\ call[1].thrown = "already exists"
    /\ store = call[1].before


\* C11: when deleteAllWhitelistUsers(true) returns with failed = 0 and
\* nothing else wrote to the collection during the call, the collection is
\* empty.
C11_DeleteAllEmpties ==
    \A p \in Procs :
        (Returned(p, "deleteAll") /\ call[p].isSuperAdmin /\ call[p].failed = 0)
            => DOMAIN store = {}

\* A deleteAll has returned without a failure after deleting a collection of
\* more than one chunk.
C11_Witness ==
    \E p \in Procs :
        /\ Returned(p, "deleteAll")
        /\ call[p].failed = 0
        /\ Cardinality(DOMAIN call[p].before) > DELETE_BATCH_SIZE
        /\ call[p].success = Cardinality(DOMAIN call[p].before)
        /\ DOMAIN store = {}



\* The number of chunks of a list of len elements.
NumChunks(len, size) == (len + size - 1) \div size

\* The size of the chunk that starts at element i (0-based).
ChunkLen(i, len, size) == IF len - i < size THEN len - i ELSE size

RECURSIVE ChunkTotal(_, _, _)
ChunkTotal(starts, len, size) ==
    IF starts = {} THEN 0
    ELSE LET i == CHOOSE x \in starts : TRUE
         IN  ChunkLen(i, len, size) + ChunkTotal(starts \ {i}, len, size)

\* C12: when deleteAllWhitelistUsers returns, whatever chunks failed, every
\* chunk has been attempted, failed is the total size of the chunks whose
\* delete failed, there is one error string per failed chunk and it carries
\* the 1-based index of that chunk, and success + failed is the number of
\* records read at the start.
C12_FailedChunkCounted ==
    \A p \in Procs :
        (Returned(p, "deleteAll") /\ call[p].isSuperAdmin) =>
            LET c == call[p]
                len == Cardinality(DOMAIN c.before)
            IN  /\ Len(c.snapshot) = len
                /\ c.storeCalls = 1 + NumChunks(len, DELETE_BATCH_SIZE)
                /\ c.failed = ChunkTotal(c.fellBack, len, DELETE_BATCH_SIZE)
                /\ Len(c.errors) = Cardinality(c.fellBack)
                /\ { c.errors[e].n : e \in 1..Len(c.errors) }
                       = { (i \div DELETE_BATCH_SIZE) + 1 : i \in c.fellBack }
                /\ \A e \in 1..Len(c.errors) : c.errors[e].tag = "Batch"
                /\ c.success + c.failed = len

\* The first chunk of a deleteAll failed and a later chunk was deleted.
C12_Witness ==
    \E p \in Procs :
        /\ Returned(p, "deleteAll")
        /\ 0 \in call[p].fellBack
        /\ call[p].failed = DELETE_BATCH_SIZE
        /\ call[p].success > 0
        /\ DOMAIN store # {}



\* The documents of st that carry userId u.
DocsOf(st, u) == { d \in DOMAIN st : st[d].userId = u }

\* The first of a set of document ids in the order the collection is read.
FirstInScan(ids) == CHOOSE d \in ids : \A e \in ids \ {d} : IdLess(d, e)

\* C13: when removeDuplicateUsers(true) returns with no error, and nothing
\* else changed the collection, every userId present before the call is left
\* with exactly one document, the first of its documents in the scan order,
\* with its content as before; a userId that was unique keeps its document.
C13_OnePerUserId ==
    \A p \in Procs :
        (Returned(p, "removeDuplicates") /\ call[p].isSuperAdmin
            /\ call[p].errors = <<>>) =>
            LET before == call[p].before
            IN  /\ UserIdsIn(store) = UserIdsIn(before)
                /\ \A u \in UserIdsIn(before) :
                       /\ DocsOf(store, u) = { FirstInScan(DocsOf(before, u)) }
                       /\ \A d \in DocsOf(store, u) : store[d] = before[d]

\* removeDuplicates has returned without an error on a collection that held
\* a repeated userId and a unique one, and has deleted something.
C13_Witness ==
    \E p \in Procs :
        /\ Returned(p, "removeDuplicates")
        /\ call[p].errors = <<>>
        /\ call[p].removed > 0
        /\ \E u \in UserIdsIn(call[p].before) :
               Cardinality(DocsOf(call[p].before, u)) = 1
        /\ Cardinality(DOMAIN store) = Cardinality(UserIdsIn(call[p].before))



\* C14: removeDuplicateUsers returns totalScanned = the number of records
\* read, duplicatesFound = totalScanned minus the number of distinct userIds,
\* and duplicatesRemoved = the total size of the chunks whose delete
\* succeeded (the number of records really deleted); duplicatesRemoved is at
\* most duplicatesFound and equals it exactly when no chunk failed.
C14_DuplicateCounts ==
    \A p \in Procs :
        (Returned(p, "removeDuplicates") /\ call[p].isSuperAdmin) =>
            LET c == call[p]
                r == DupResult(c)
                read == Cardinality(DOMAIN c.before)
            IN  /\ r.totalScanned = read
                /\ r.duplicatesFound = read - Cardinality(UserIdsIn(c.before))
                /\ r.duplicatesRemoved = r.duplicatesFound
                       - ChunkTotal(c.fellBack, r.duplicatesFound, DELETE_BATCH_SIZE)
                /\ r.duplicatesRemoved = read - Cardinality(DOMAIN store)
                /\ r.duplicatesRemoved <= r.duplicatesFound
                /\ (r.duplicatesRemoved = r.duplicatesFound) <=> (c.faults = 0)
                /\ (c.faults = 0) <=> (r.errors = <<>>)

\* removeDuplicates has returned after one chunk was deleted and another
\* failed.
C14_Witness ==
    \E p \in Procs :
        /\ Returned(p, "removeDuplicates")
        /\ DupResult(call[p]).duplicatesRemoved > 0
        /\ DupResult(call[p]).duplicatesRemoved < DupResult(call[p]).duplicatesFound
        /\ call[p].fellBack # {}



\* C15: an import whose input is empty, or holds no record that passes the
\* field rules, issues no store call (no existence query, no write) and
\* changes nothing; for the empty input it returns success, failed and
\* skipped all zero and an empty errors list.
C15_NoStoreCallWithoutValidRecord ==
    \A p \in Procs :
        LET c == call[p]
        IN  (c.op = "import" /\ ValidRows(c.users) = {}) =>
                /\ c.pc = "done" /\ c.thrown = ""
                /\ c.storeCalls = 0 /\ c.issued = {}
                /\ store = c.before
                /\ (c.users = <<>> =>
                       /\ c.success = 0 /\ c.failed = 0 /\ c.skipped = 0
                       /\ c.errors = <<>>)

\* An import of a file of several records, none of them valid, has returned.
C15_Witness ==
    \E p \in Procs :
        /\ Returned(p, "import")
        /\ Len(call[p].users) > 1
        /\ ValidRows(call[p].users) = {}
        /\ call[p].failed = Len(call[p].users)
        /\ call[p].storeCalls = 0



\* C16: with one caller at a time, addWhitelistUser for a userId that a
\* stored record already carries fails with 'already exists' and leaves the
\* collection as it was (the store call itself not failing).
C16_ExistingUserIdRejected ==
    \A p \in Procs :
        LET c == call[p]
        IN  (c.op = "add" /\ c.pc = "done" /\ c.faults = 0
                /\ c.users[1].userId \in UserIdsIn(c.before)) =>
                (c.thrown = "already exists" /\ store = c.before)



\* C17: whatever bootstrapSuperAdmin calls were made for the configured
\* super-admin email, overlapping ones included, admin_users holds at most
\* one document with that email.
C17_OneSuperAdminRecord ==
    Cardinality(AdminsByEmail(admin_users, SUPER_ADMIN_EMAIL)) <= 1

\* C18: no getRegistrationConfig call writes the defaults over a
\* registration_config document that exists, whatever other reads and
\* updates it overlaps with.
C18_DefaultsNeverOverwrite ==
    \A p \in Procs : ~DocExists(call[p].replaced, configRef)



\* The write of a row of the working set has resolved: the row was stored,
\* or its individual write failed and was reported.
Settled(c, row) ==
    \/ row \in c.imported
    \/ \E e \in ErrorsOfRow(c, row) : c.errors[e].message = "backend error"

\* C19: at every moment of an import call at most one store write of the
\* call is in flight; it belongs to the chunk the loop stands at, the write
\* of every record of the earlier chunks has resolved before it was issued,
\* and an individual fallback write is in flight only after the batch commit
\* of its chunk has failed and the fallback writes before it have resolved.
C19_OneWriteInFlight ==
    \A p \in Procs :
        LET c == call[p]
        IN  c.op = "import" =>
                /\ Cardinality(c.inFlight) <= 1
                /\ \A w \in c.inFlight :
                       /\ w[2] = c.i
                       /\ \A k \in 1..w[2] : Settled(c, c.usersToImport[k].rowNumber)
                       /\ w[1] = "setDoc" =>
                              /\ w[2] \in c.fellBack
                              /\ \A k \in (w[2] + 1)..(w[2] + w[3]) :
                                     Settled(c, c.usersToImport[k].rowNumber)

\* The fallback write of a record of the second chunk is in flight, after
\* the first chunk went through its own fallback.
C19_Witness ==
    \E p \in Procs :
        /\ call[p].op = "import"
        /\ call[p].inFlight = { <<"setDoc", BATCH_SIZE, 0>> }
        /\ 0 \in call[p].fellBack
        /\ call[p].waitedAfter = {0}



\* The loop indices of the chunks of a list of len elements, the last chunk
\* left out.
ChunksBeforeLast(len, size) == { i \in 0..(len - 1) : i % size = 0 /\ i + size < len }

\* C20: when deleteAllWhitelistUsers or removeDuplicateUsers returns, a
\* pacing wait has followed every chunk but the last, whether the delete of
\* the chunk succeeded or failed, and no wait has followed the last chunk.
C20_WaitAfterEveryChunk ==
    \A p \in Procs :
        LET c == call[p]
        IN  /\ (Returned(p, "deleteAll") /\ c.isSuperAdmin) =>
                   c.waitedAfter = ChunksBeforeLast(Len(c.snapshot), DELETE_BATCH_SIZE)
            /\ (Returned(p, "removeDuplicates") /\ c.isSuperAdmin) =>
                   c.waitedAfter = ChunksBeforeLast(Len(c.duplicates), DELETE_BATCH_SIZE)

\* C21: when removeDuplicateUsers returns, the progress callback has been
\* invoked once for each chunk of deletes the call processed: the number of
\* progress reports is the number of chunks.
C21_ProgressAfterEachChunk ==
    \A p \in Procs :
        (Returned(p, "removeDuplicates") /\ call[p].isSuperAdmin) =>
            Len(call[p].progress) = NumChunks(Len(call[p].duplicates), DELETE_BATCH_SIZE)

\* The positions in validUsers of the group the existence query at loop
\* index i asks about.
QueryGroup(c, i) ==
    { k \in 1..Len(c.validUsers) : i < k /\ k <= i + QUERY_SIZE }

\* A query of the call other than the one at loop index i succeeded, asked
\* about userId and found it in the collection.
ReportedByOtherQuery(c, i, userId) ==
    \E i2 \in 0..(Len(c.validUsers) - 1) :
        /\ i2 % QUERY_SIZE = 0 /\ i2 # i /\ i2 \notin c.queryFailed
        /\ \E k \in QueryGroup(c, i2) : c.validUsers[k].userId = userId
        /\ userId \in UserIdsIn(c.before)

NewlyImported(q) ==
    IF call[q].op = "import" /\ call'[q].op = "import"
          /\ call[q].imported \subseteq call'[q].imported
    THEN call'[q].imported \ call[q].imported
    ELSE {}

\* C23: the existence pre-check of an import is not repeated before the
\* write, and the write creates or replaces: whenever a write of an import
\* call succeeds, every record of it is counted in success and the stored
\* document is the one of that call, whatever another call has stored under
\* the same userId since the pre-check.  Two concurrent imports that share a
\* new userId can therefore both count it in success.
C23_WriteAfterStalePreCheck ==
    [][\A q \in Procs :
          /\ call'[q].success - call[q].success = Cardinality(NewlyImported(q))
                \/ NewlyImported(q) = {}
          /\ \A k \in 1..Len(call[q].usersToImport) :
                LET user == call[q].usersToImport[k]
                    docId == sanitizeDocId(user.userId)
                IN  user.rowNumber \in NewlyImported(q) =>
                        /\ docId \in DOMAIN store'
                        /\ store'[docId].addedBy = q]_vars

\* Two imports have run concurrently and returned: both passed the
\* pre-check for a userId that was not stored, both count its record in
\* success, and one document carries it.
C23_Witness ==
    \E u \in PlainUserIds :
        /\ \A p \in Procs :
              /\ Returned(p, "import")
              /\ call[p].before = EmptyStore
              /\ call[p].existingUserIds = {} /\ call[p].queryFailed = {}
              /\ call[p].success = Len(call[p].users)
              /\ \E k \in 1..Len(call[p].usersToImport) :
                    /\ call[p].usersToImport[k].userId = u
                    /\ call[p].usersToImport[k].rowNumber \in call[p].imported
        /\ Cardinality(DocsOf(store, u)) = 1

\* The rows whose individual write failed and was reported.
WriteFailedRows(c) ==
    { c.errors[e].n : e \in ErrorsWith(c, "backend error") }

\* The rows the pre-check reported as stored.
ExistingRows(c) ==
    { c.errors[e].n : e \in ErrorsWith(c, ExistsMessage) }

\* C24: the totals of a returned import are made of the outcomes of its
\* records alone, wherever the chunk boundaries fall: every record of the
\* working set ends either stored or with a failed individual write, success
\* is the number of records stored, failed the number of invalid rows plus
\* the failed individual writes, skipped the number of repeated rows plus the
\* rows reported as stored.  This holds when the working set is an exact
\* multiple of the chunk size and when it is one record more.
C24_TotalsFromRecordOutcomes ==
    \A p \in Procs :
        Returned(p, "import") =>
            LET c == call[p]
            IN  /\ c.imported \cup WriteFailedRows(c) = Rows(c.usersToImport)
                /\ c.imported \cap WriteFailedRows(c) = {}
                /\ c.success = Cardinality(c.imported)
                /\ c.failed = Cardinality(InvalidRows(c.users))
                                + Cardinality(WriteFailedRows(c))
                /\ c.skipped = Cardinality(DuplicateRows(c.users))
                                + Cardinality(ExistingRows(c))

\* An import has returned whose working set is one record more than a
\* chunk: the commit of the full chunk failed and its records were written
\* one by one, one of them in vain; the last chunk of one record was stored.
C24_Witness ==
    \E p \in Procs :
        /\ Returned(p, "import")
        /\ Len(call[p].usersToImport) = BATCH_SIZE + 1
        /\ call[p].fellBack = {0}
        /\ Cardinality(WriteFailedRows(call[p])) = 1
        /\ call[p].success = BATCH_SIZE

\* C25: after the validation pass of an import no two records of the
\* accepted working set carry the same (trimmed) userId, and so no two of
\* them are written to the same document.
C25_WorkingSetUniqueUserId ==
    \A p \in Procs :
        LET c == call[p]
        IN  c.op = "import" =>
                \A k1, k2 \in 1..Len(c.validUsers) :
                    (\/ c.validUsers[k1].userId = c.validUsers[k2].userId
                     \/ sanitizeDocId(c.validUsers[k1].userId)
                            = sanitizeDocId(c.validUsers[k2].userId))
                        => k1 = k2

BulkOps == { "import", "deleteAll", "removeDuplicates" }

\* Call number t of process p is suspended on a store call or on a delay.
Running(p, t) == call[p].op \in BulkOps /\ call[p].pc # "done" /\ now = t

\* The call has issued a write or a delete for every chunk of its list.
AllChunksAttempted(c) ==
    CASE c.op = "import" -> c.issued = Rows(c.usersToImport)
      [] c.op = "deleteAll" ->
             c.storeCalls = 1 + NumChunks(Len(c.snapshot), DELETE_BATCH_SIZE)
                /\ Len(c.snapshot) = Cardinality(DOMAIN c.before)
      [] c.op = "removeDuplicates" ->
             c.storeCalls = 1 + NumChunks(Len(c.duplicates), DELETE_BATCH_SIZE)
                /\ Len(c.snapshot) = Cardinality(DOMAIN c.before)
      [] OTHER -> FALSE

\* The initial read of the collection failed and the call threw.
InitialReadFailed(c) ==
    c.op \in {"deleteAll", "removeDuplicates"} /\ c.pc = "done"
        /\ c.thrown = "backend error" /\ c.storeCalls = 1

\* The claim as it stands: when every store call and every delay resolves,
\* each bulk call returns in the end, having attempted every chunk.
C26_EventuallyReturns ==
    \A p \in Procs : \A t \in 1..MaxCalls :
        Running(p, t) ~>
            (now = t /\ call[p].pc = "done" /\ call[p].thrown = ""
                /\ AllChunksAttempted(call[p]))

\* C26: when every store call and every delay resolves, an import returns
\* in the end, and a deleteAll or removeDuplicates of a super admin returns
\* in the end unless its initial read of the collection fails, in which case
\* it throws; a call that returns has attempted every chunk.
C26_EventuallyReturnsOrReadFails ==
    \A p \in Procs : \A t \in 1..MaxCalls :
        Running(p, t) ~>
            (now = t /\ call[p].pc = "done"
                /\ \/ call[p].thrown = "" /\ AllChunksAttempted(call[p])
                   \/ InitialReadFailed(call[p]))

\* A deleteAll has returned after a delay and a failed chunk, every chunk
\* attempted.
C26_Witness ==
    \E p \in Procs :
        /\ Returned(p, "deleteAll")
        /\ call[p].fellBack # {} /\ call[p].waitedAfter # {}
        /\ AllChunksAttempted(call[p])
        /\ NumChunks(Len(call[p].snapshot), DELETE_BATCH_SIZE) > 1

\* C27: when an import returns, success + failed + skipped is the length of
\* the input list and the errors list has failed + skipped entries, whatever
\* the input and whatever store calls failed.
C27_CountersAddUp ==
    \A p \in Procs :
        Returned(p, "import") =>
            /\ call[p].success + call[p].failed + call[p].skipped = Len(call[p].users)
            /\ Len(call[p].errors) = call[p].failed + call[p].skipped

\* An import has returned with a stored record, a failed one and a skipped
\* one, the commit of its chunk having failed.
C27_Witness ==
    \E p \in Procs :
        /\ Returned(p, "import")
        /\ call[p].success > 0 /\ call[p].failed > 0 /\ call[p].skipped > 0
        /\ call[p].fellBack # {}
        /\ ExistingRows(call[p]) # {}

\* C28: an import whose existence queries all succeeded, with no other
\* caller at work, only adds: every document stored before the call is
\* still stored with the same fields when it returns, and the collection
\* has grown by the returned success count.
C28_ImportOnlyAdds ==
    \A p \in Procs :
        (Returned(p, "import") /\ call[p].queryFailed = {}) =>
            /\ \A d \in DOMAIN call[p].before :
                   d \in DOMAIN store /\ store[d] = call[p].before[d]
            /\ Cardinality(DOMAIN store)
                   = Cardinality(DOMAIN call[p].before) + call[p].success

\* C29: of two addWhitelistUser calls for one userId, overlapping or not, at
\* most one returns an id: the other one fails with 'already exists' (or on
\* a failed store call).
C29_AtMostOneAddReturns ==
    \A p, q \in Procs :
        (/\ p # q
         /\ Returned(p, "add") /\ Returned(q, "add")
         /\ call[p].users[1].userId = call[q].users[1].userId) => FALSE

\* Every handler has finished, and the handler of the latest auth event is
\* among them with none of its store calls failed.
HandlersFinished ==
    /\ \A p \in Procs : call[p].pc \in {"idle", "done"}
    /\ \E p \in Procs :
          /\ call[p].op = "authHandler" /\ call[p].pc = "done"
          /\ call[p].event = now /\ call[p].faults = 0

\* C30: once all auth-state handlers have finished, isAdmin and
\* isSuperAdmin are what checkIsAdmin and checkIsSuperAdmin answer for the
\* user now signed in, and both are false when nobody is signed in.
C30_FlagsMatchSignedInUser ==
    HandlersFinished =>
        IF authState.user = "none"
        THEN ~authState.isAdmin /\ ~authState.isSuperAdmin
        ELSE /\ authState.isAdmin = checkIsAdmin(admin_users, authState.user)
             /\ authState.isSuperAdmin = checkIsSuperAdmin(admin_users, authState.user)

============================================================================
